---- MODULE Spec2Model ----
(***************************************************************************)
(* Dispatch Planner (src/src/App.jsx): the in-memory store (sites,         *)
(* drivers, loads), the Load Planner page that assembles line items under  *)
(* the 8,800 gal ceiling and creates loads, the Drivers section, the Sites *)
(* page and the Proof-of-Delivery page that marks loads delivered.         *)
(*                                                                         *)
(* Every handler runs to completion on the single UI thread, so each       *)
(* handler is one atomic action.  Site and driver records carry the id and *)
(* the name, a site its tanks as well; address and phone are free text     *)
(* that nothing reads back.  A                                             *)
(* modal form (open, fill in, Save) is the Save handler with the form's    *)
(* content as its input.  Timestamps are the millisecond instants that     *)
(* Date.now() returns and that toISOString() prints; the ISO text of an    *)
(* instant is unique and sorts as the instant does, so a timestamp is      *)
(* modelled by its instant.  The clock is read wherever the code reads it  *)
(* and never goes backwards.                                               *)
(***************************************************************************)
EXTENDS Integers, Sequences, FiniteSets, TLC

\* ---------------------------------------------------------------- bounds
MaxTicks == 1      \* clock readings after the first one
MaxSites == 1      \* sites in the store at once
MaxDrivers == 1    \* drivers in the store at once
MaxLoads == 2      \* loads in the store
MaxItems == 2      \* line items under assembly
MaxTanks == 3      \* tanks of one site
StartTime == 1000  \* first clock reading; later than both seeded ids

\* ------------------------------------------------------ program constants
maxGal == 8800
SeedSiteId == 101
SeedDriverId == 1
NoId == 0          \* an unset select: "" in the code, falsy like 0

GradeInputs == {"Regular", "Diesel"}    \* what the user picks as grade
OneGrade == {"Regular"}
QtyInputs == {-1, 0, 1, maxGal - 1, maxGal}   \* what the user types into Qty
CeilingQty == {0, 1, maxGal - 1, maxGal}
FewQty == {0, 1}
NameInputs == {"", "n"}
CapacityInputs == {-1, 0, 1}            \* what the user types into Capacity
\* The tanks of the seeded site.
SeedTanks ==
    <<[id |-> 1, grade |-> "Regular", capacity |-> 10000],
      [id |-> 2, grade |-> "Premium", capacity |-> 8000]>>
Pages == {"sites", "planner", "pod"}
Tabs == {"pending", "history"}
Times == StartTime .. (StartTime + MaxTicks)

VARIABLES
    sites,      \* store: sequence of site records
    drivers,    \* store: sequence of driver records
    loads,      \* store: sequence of load records
    page,       \* the mounted route
    siteId,     \* PlannerPage state
    driverId,
    items,
    grade,
    qty,
    tab,        \* PodPage state
    notifying,  \* notifyDriver promises not yet settled
    now,        \* the clock
    toast       \* what the latest handler showed as a toast, "" if nothing

vars == <<sites, drivers, loads, page, siteId, driverId, items, grade, qty,
          tab, notifying, now, toast>>
store == <<sites, drivers, loads>>
planner == <<siteId, driverId, items, grade, qty>>

\* ------------------------------------------------------------- helpers
Ids(seq) == {seq[i].id : i \in DOMAIN seq}

\* sites[0]?.id || ""
FirstId(seq) == IF Len(seq) = 0 THEN NoId ELSE seq[1].id

RECURSIVE SumQty(_)
SumQty(its) == IF its = <<>> THEN 0 ELSE SumQty(SubSeq(its, 1, Len(its) - 1)) + its[Len(its)].qty

\* items.reduce((sum, i) => sum + i.qty, 0)
totalQty == SumQty(items)

\* ------------------------------------------------------------ the store
addSite(s, site) == Append(s, site)
updateSite(prev, id, patch) ==
    [i \in DOMAIN prev |-> IF prev[i].id = id THEN patch @@ prev[i] ELSE prev[i]]
deleteSite(prev, id) == SelectSeq(prev, LAMBDA s : s.id # id)
addTankToSite(prev, id, tank) ==
    [i \in DOMAIN prev |->
        IF prev[i].id = id
        THEN [prev[i] EXCEPT !.tanks = Append(prev[i].tanks, tank)]
        ELSE prev[i]]
addDriver(ds, d) == Append(ds, d)
updateDriver(prev, id, patch) ==
    [i \in DOMAIN prev |-> IF prev[i].id = id THEN patch @@ prev[i] ELSE prev[i]]
deleteDriver(prev, id) == SelectSeq(prev, LAMBDA d : d.id # id)
\* A slip of addLoad: the new load replaces the collection.
addLoad_Replace(ls, l) == <<l>>

addLoad(ls, l) == Append(ls, l)

\* Slips of the delivery patch: the status left as it was; the timestamp
\* taken from the epoch instead of the clock.
Delivered_NoStatus(l, t) == ("deliveredAt" :> t) @@ l
Delivered_Epoch(l, t) == ("status" :> "Delivered") @@ ("deliveredAt" :> 0) @@ l

\* Another slip of the patch: the load rebuilt without its items.
Delivered_DropsItems(l, t) ==
    ("status" :> "Delivered") @@ ("deliveredAt" :> t) @@ ("items" :> <<>>) @@ l

\* { ...l, status: "Delivered", deliveredAt: <clock> }
Delivered(l, t) == ("status" :> "Delivered") @@ ("deliveredAt" :> t) @@ l

markLoadDelivered(prev, id, t) ==
    [i \in DOMAIN prev |-> IF prev[i].id = id THEN Delivered(prev[i], t) ELSE prev[i]]

\* ------------------------------------------------------------ the clock
Tick ==
    /\ now < StartTime + MaxTicks
    /\ now' = now + 1
    /\ toast' = ""
    /\ UNCHANGED <<store, page, planner, tab, notifying>>

\* ------------------------------------------------------------ the router
\* A route change unmounts the page: PlannerPage and PodPage state is
\* re-initialised by useState on the next mount.
Navigate(p) ==
    /\ p # page
    /\ page' = p
    /\ siteId' = IF p = "planner" THEN FirstId(sites) ELSE NoId
    /\ driverId' = IF p = "planner" THEN FirstId(drivers) ELSE NoId
    /\ items' = <<>>
    /\ grade' = "Regular"
    /\ qty' = 0
    /\ tab' = "pending"
    /\ toast' = ""
    /\ UNCHANGED <<store, notifying, now>>

\* ---------------------------------------------------------- Sites page
HandleSaveSite(editId, name) ==
    /\ page = "sites"
    /\ editId \in Ids(sites) \cup {NoId}
    /\ IF name = ""
       THEN toast' = "Site name?" /\ UNCHANGED sites
       ELSE IF editId # NoId
       THEN /\ sites' = updateSite(sites, editId, [name |-> name])
            /\ toast' = "Site updated"
       ELSE /\ Len(sites) < MaxSites
            /\ sites' = addSite(sites, [id |-> now, name |-> name, tanks |-> <<>>])
            /\ toast' = "Site added"
    /\ UNCHANGED <<drivers, loads, page, planner, tab, notifying, now>>

DeleteSite(id) ==
    /\ page = "sites"
    /\ id \in Ids(sites)
    /\ sites' = deleteSite(sites, id)
    /\ UNCHANGED <<drivers, loads, page, planner, tab, notifying, now>>
    /\ toast' = ""

\* !newTank.capacity
CapacityMissing(c) == c = 0

\* The Add Tank modal of one site, saved with the grade and capacity typed.
handleAddTank(forId, g, c) ==
    /\ page = "sites"
    /\ forId \in Ids(sites)
    /\ IF CapacityMissing(c)
       THEN toast' = "Capacity?" /\ UNCHANGED sites
       ELSE /\ \A i \in DOMAIN sites :
                  sites[i].id = forId => Len(sites[i].tanks) < MaxTanks
            /\ sites' = addTankToSite(sites, forId, [id |-> now, grade |-> g, capacity |-> c])
            /\ toast' = "Tank added"
    /\ UNCHANGED <<drivers, loads, page, planner, tab, notifying, now>>

\* ------------------------------------------- Planner page: Drivers section
HandleSaveDriver(editId, name) ==
    /\ page = "planner"
    /\ editId \in Ids(drivers) \cup {NoId}
    /\ IF name = ""
       THEN toast' = "Name?" /\ UNCHANGED drivers
       ELSE IF editId # NoId
       THEN /\ drivers' = updateDriver(drivers, editId, [name |-> name])
            /\ toast' = "Driver updated"
       ELSE /\ Len(drivers) < MaxDrivers
            /\ drivers' = addDriver(drivers, [id |-> now, name |-> name])
            /\ toast' = "Driver added"
    /\ UNCHANGED <<sites, loads, page, planner, tab, notifying, now>>

DeleteDriver(id) ==
    /\ page = "planner"
    /\ id \in Ids(drivers)
    /\ drivers' = deleteDriver(drivers, id)
    /\ UNCHANGED <<sites, loads, page, planner, tab, notifying, now>>
    /\ toast' = ""

\* ------------------------------------------------ Planner page: the form
SetSiteId(s) ==
    /\ page = "planner"
    /\ s \in Ids(sites)
    /\ siteId' = s
    /\ UNCHANGED <<store, page, driverId, items, grade, qty, tab, notifying, now>>
    /\ toast' = ""

SetDriverId(d) ==
    /\ page = "planner"
    /\ d \in Ids(drivers)
    /\ driverId' = d
    /\ UNCHANGED <<store, page, siteId, items, grade, qty, tab, notifying, now>>
    /\ toast' = ""

SetGrade(g) ==
    /\ page = "planner"
    /\ grade' = g
    /\ UNCHANGED <<store, page, siteId, driverId, items, qty, tab, notifying, now>>
    /\ toast' = ""

SetQty(q) ==
    /\ page = "planner"
    /\ qty' = q
    /\ UNCHANGED <<store, page, siteId, driverId, items, grade, tab, notifying, now>>
    /\ toast' = ""

\* !qty
QtyMissing(q) == q = 0

\* Slips of the capacity test: the new quantity left out, the ceiling off
\* by one, the ceiling itself refused.
OverCapacity_IgnoresNew(total, q) == total > maxGal
OverCapacity_OffByOne(total, q) == total + q > maxGal + 1
OverCapacity_Inclusive(total, q) == total + q >= maxGal

\* totalQty + qty > maxGal
OverCapacity(total, q) == total + q > maxGal

addItem ==
    /\ page = "planner"
    /\ IF QtyMissing(qty)
       THEN toast' = "Qty?" /\ UNCHANGED <<items, qty>>
       ELSE IF OverCapacity(totalQty, qty)
       THEN toast' = "Exceeds 8,800 gal" /\ UNCHANGED <<items, qty>>
       ELSE /\ Len(items) < MaxItems
            /\ items' = Append(items, [grade |-> grade, qty |-> qty])
            /\ qty' = 0
            /\ toast' = ""
    /\ UNCHANGED <<store, page, siteId, driverId, grade, tab, notifying, now>>

\* A slip of the validation: the driver is not looked at.
MissingField_NoDriver(s, d, its) == s = NoId \/ Len(its) = 0

\* !siteId || !driverId || items.length === 0
MissingField(s, d, its) == s = NoId \/ d = NoId \/ Len(its) = 0

\* The load literal of handleCreateLoad: Date.now() is the id and
\* new Date().toISOString(), read in the same handler run, the creation time.
NewLoad(id, s, d, its, created) ==
    [id |-> id, siteId |-> s, driverId |-> d, items |-> its,
     status |-> "Planned", createdAt |-> created]

\* The handler itself; the Create Load button is also disabled while the
\* item list is empty.
handleCreateLoad ==
    /\ page = "planner"
    /\ IF MissingField(siteId, driverId, items)
       THEN /\ toast' = "Fill all fields"
            /\ UNCHANGED <<loads, items, notifying>>
       ELSE /\ Len(loads) < MaxLoads
            /\ loads' = addLoad(loads, NewLoad(now, siteId, driverId, items, now))
            /\ toast' = "Load created"
            /\ notifying' = notifying + 1
            /\ items' = <<>>
    /\ UNCHANGED <<sites, drivers, page, siteId, driverId, grade, qty, tab, now>>

\* A slip of notifyDriver: the reset of the item list done after the await
\* instead of before the promise was started.
NotifySettle_ResetsItems(outcome) ==
    /\ notifying > 0
    /\ notifying' = notifying - 1
    /\ items' = <<>>
    /\ toast' = IF outcome = "copied" THEN "Copied assignment to clipboard" ELSE ""
    /\ UNCHANGED <<store, page, siteId, driverId, grade, qty, tab, now>>

\* notifyDriver after its await: navigator.share or the clipboard settles.
\* Only the clipboard branch shows a toast; a rejection is logged.
NotifySettle(outcome) ==
    /\ notifying > 0
    /\ notifying' = notifying - 1
    /\ toast' = IF outcome = "copied" THEN "Copied assignment to clipboard" ELSE ""
    /\ UNCHANGED <<store, page, planner, tab, now>>

\* ------------------------------------------------------------ POD page
SetTab(t) ==
    /\ page = "pod"
    /\ tab' = t
    /\ UNCHANGED <<store, page, planner, notifying, now>>
    /\ toast' = ""

\* The Attach POD input is rendered for the loads of the Pending tab only.
handleUpload(i, f) ==
    /\ page = "pod"
    /\ tab = "pending"
    /\ i \in DOMAIN loads
    /\ loads[i].status = "Planned"
    /\ IF f
       THEN /\ loads' = markLoadDelivered(loads, loads[i].id, now)
            /\ toast' = "POD saved - load marked delivered"
       ELSE toast' = "" /\ UNCHANGED loads
    /\ UNCHANGED <<sites, drivers, page, planner, tab, notifying, now>>

Init ==
    /\ sites = <<[id |-> SeedSiteId, name |-> "n", tanks |-> SeedTanks]>>
    /\ drivers = <<[id |-> SeedDriverId, name |-> "n"]>>
    /\ loads = <<>>
    /\ page = "sites"
    /\ siteId = NoId
    /\ driverId = NoId
    /\ items = <<>>
    /\ grade = "Regular"
    /\ qty = 0
    /\ tab = "pending"
    /\ notifying = 0
    /\ now = StartTime
    /\ toast = ""

\* ------------------------------------------------ steps, by page
SiteIdInputs == Times \cup {SeedSiteId}
DriverIdInputs == Times \cup {SeedDriverId}

RouterStep == \E p \in Pages : Navigate(p)

SitesStep ==
    \/ \E e \in SiteIdInputs \cup {NoId}, n \in NameInputs : HandleSaveSite(e, n)
    \/ \E id \in SiteIdInputs : DeleteSite(id)

TankStep ==
    \E s \in SiteIdInputs, g \in OneGrade, c \in CapacityInputs : handleAddTank(s, g, c)

DriversStep ==
    \/ \E e \in DriverIdInputs \cup {NoId}, n \in NameInputs : HandleSaveDriver(e, n)
    \/ \E id \in DriverIdInputs : DeleteDriver(id)

SelectStep ==
    \/ \E s \in SiteIdInputs : SetSiteId(s)
    \/ \E d \in DriverIdInputs : SetDriverId(d)

FormStep(Q, G) ==
    \/ \E g \in G : SetGrade(g)
    \/ \E q \in Q : SetQty(q)
    \/ addItem

NotifyStep == \E o \in {"shared", "copied", "failed"} : NotifySettle(o)

PodStep ==
    \/ \E t \in Tabs : SetTab(t)
    \/ \E i \in 1 .. MaxLoads, f \in BOOLEAN : handleUpload(i, f)

\* The whole application: every page, the store and the clock.  The form is
\* fed one quantity and one grade.  A notification, once sent, stays in
\* flight: settling it writes nothing but a toast, and no handler reads the
\* toast or the count of pending notifications.  The sites keep the tanks
\* they have: only the Sites page reads or writes tanks.
Next ==
    \/ Tick
    \/ RouterStep
    \/ SitesStep
    \/ DriversStep
    \/ SelectStep
    \/ FormStep(FewQty, OneGrade)
    \/ handleCreateLoad
    \/ PodStep

Spec == Init /\ [][Next]_vars

\* The roster: sites and drivers come and go between visits of the planner,
\* which starts from the first site and driver it finds, or from none.
NextRoster ==
    \/ RouterStep
    \/ SitesStep
    \/ DriversStep
    \/ FormStep(FewQty, OneGrade)
    \/ handleCreateLoad

SpecRoster == Init /\ [][NextRoster]_vars

\* The Sites page: sites and their tanks are added, renamed and deleted.
NextSites ==
    \/ RouterStep
    \/ SitesStep
    \/ TankStep

SpecSites == Init /\ [][NextSites]_vars

\* The life of a load: everything that writes the loads or the clock, with
\* the seeded site and driver.
NextLifecycle ==
    \/ Tick
    \/ RouterStep
    \/ FormStep(FewQty, OneGrade)
    \/ handleCreateLoad
    \/ PodStep

SpecLifecycle == Init /\ [][NextLifecycle]_vars

\* The capacity of a load: everything that writes the item list or the
\* loads, with the seeded site and driver and a stopped clock.  The form is
\* fed small and at-the-ceiling quantities of one grade.
NextPlanner ==
    \/ RouterStep
    \/ FormStep(CeilingQty, OneGrade)
    \/ handleCreateLoad
    \/ NotifyStep
    \/ PodStep

SpecPlanner == Init /\ [][NextPlanner]_vars

\* Assembling the item list alone: negative, zero, small and at-the-ceiling
\* quantities in two grades.
NextForm ==
    \/ RouterStep
    \/ FormStep(QtyInputs, GradeInputs)

SpecForm == Init /\ [][NextForm]_vars

\* ======================================================== properties
AllItemLists == {items} \cup {loads[i].items : i \in DOMAIN loads}

\* C1: every load in the store has a sum of item quantities of at most
\* 8,800, whatever was added, created and delivered before.
C1_LoadWithinCapacity ==
    \A i \in DOMAIN loads : SumQty(loads[i].items) <= maxGal

\* A delivered load of two items that is filled to the ceiling exactly.
C1_Witness ==
    \E i \in DOMAIN loads :
        /\ Len(loads[i].items) = 2
        /\ SumQty(loads[i].items) = maxGal
        /\ loads[i].status = "Delivered"

\* C2: addItem appends no quantity that is zero or negative, so every item
\* under assembly and every item of every stored load has a quantity > 0.
C2_QuantitiesPositive ==
    \A its \in AllItemLists : \A k \in DOMAIN its : its[k].qty > 0

\* C3: addItem with a positive quantity that takes the total above 8,800
\* shows the capacity error and leaves the item list, the loads and the
\* form's fields as they were, so that the same call fails the same way
\* again.
C3_CapacityRejection ==
    [][(addItem /\ qty > 0 /\ SumQty(items) + qty > maxGal)
         => /\ toast' = "Exceeds 8,800 gal"
            /\ items' = items
            /\ loads' = loads
            /\ qty' = qty
            /\ grade' = grade]_vars

\* The capacity error for a total of 8,801, with a load in the store.
C3_Witness ==
    /\ toast = "Exceeds 8,800 gal"
    /\ qty > 0
    /\ Len(items) > 0
    /\ SumQty(items) + qty = maxGal + 1
    /\ Len(loads) > 0

\* C4: addItem with a positive quantity that keeps the total at or below
\* 8,800 shows no error and appends exactly that item at the end of the
\* list, leaving the earlier items, same grade or not, as they were.
C4_AcceptedInOrder ==
    [][(addItem /\ qty > 0 /\ SumQty(items) + qty <= maxGal)
         => /\ toast' = ""
            /\ items' = items \o <<[grade |-> grade, qty |-> qty]>>]_vars

\* Two items of one grade and different quantities, just added, that fill
\* the load to the ceiling exactly.
C4_Witness ==
    /\ page = "planner"
    /\ toast = ""
    /\ qty = 0
    /\ Len(items) = 2
    /\ items[1].grade = items[2].grade
    /\ items[1].qty > items[2].qty
    /\ SumQty(items) = maxGal

\* C5: Create Load with the site unset, the driver unset or no item shows
\* the validation error and leaves the loads and the item list as they were.
C5_CreateRejected ==
    [][(handleCreateLoad /\ (siteId = NoId \/ driverId = NoId \/ items = <<>>))
         => /\ toast' = "Fill all fields"
            /\ loads' = loads
            /\ items' = items]_vars

\* The validation error for an unset driver, with a site and an item.
C5_Witness ==
    /\ toast = "Fill all fields"
    /\ siteId # NoId
    /\ driverId = NoId
    /\ items # <<>>

\* C6: Create Load with a site, a driver and at least one item appends
\* exactly one load: Planned, with the selected site and driver and the
\* item list in order.
C6_CreateSucceeds ==
    [][(handleCreateLoad /\ siteId # NoId /\ driverId # NoId /\ items # <<>>)
         => /\ toast' = "Load created"
            /\ Len(loads') = Len(loads) + 1
            /\ SubSeq(loads', 1, Len(loads)) = loads
            /\ loads'[Len(loads')].status = "Planned"
            /\ loads'[Len(loads')].siteId = siteId
            /\ loads'[Len(loads')].driverId = driverId
            /\ loads'[Len(loads')].items = items]_vars

\* A second load just created from two different items.
C6_Witness ==
    /\ toast = "Load created"
    /\ Len(loads) = 2
    /\ Len(loads[2].items) = 2
    /\ loads[2].items[1].qty # loads[2].items[2].qty
    /\ loads[2].siteId = SeedSiteId
    /\ loads[2].driverId = SeedDriverId

C7_TimestampOnlyOnDelivered ==
    \A i \in DOMAIN loads :
        /\ loads[i].status \in {"Planned", "Delivered"}
        /\ "deliveredAt" \in DOMAIN loads[i] => loads[i].status = "Delivered"

C7_StatusStep ==
    /\ \A i \in DOMAIN loads :
          /\ i \in DOMAIN loads'
          /\ loads[i].status = "Delivered" => loads'[i].status = "Delivered"
    /\ \A i \in DOMAIN loads' \ DOMAIN loads : loads'[i].status = "Planned"

\* C7: a load enters the store Planned, a Delivered load stays Delivered in
\* every later state, and only Delivered loads carry a delivery timestamp.
C7_Lifecycle == []C7_TimestampOnlyOnDelivered /\ [][C7_StatusStep]_vars

\* A Delivered load next to a Planned one.
C7_Witness ==
    \E i, j \in DOMAIN loads :
        /\ loads[i].status = "Delivered"
        /\ "deliveredAt" \in DOMAIN loads[i]
        /\ loads[j].status = "Planned"

\* C8: attaching the proof of delivery to a Planned load leaves it
\* Delivered with a delivery timestamp at or after its creation timestamp.
C8_DeliveredAfterCreated ==
    [][\A i \in DOMAIN loads :
          handleUpload(i, TRUE)
            => /\ loads'[i].status = "Delivered"
               /\ "deliveredAt" \in DOMAIN loads'[i]
               /\ loads'[i].deliveredAt >= loads'[i].createdAt]_vars

\* A load delivered at a later clock reading than it was created at.
C8_Witness ==
    /\ toast = "POD saved - load marked delivered"
    /\ \E i \in DOMAIN loads :
          /\ loads[i].status = "Delivered"
          /\ loads[i].deliveredAt > loads[i].createdAt

\* C9: marking delivered leaves an already Delivered load, its delivery
\* timestamp included, as it was.
C9_RedeliveryIsNoOp ==
    [][\A i \in DOMAIN loads :
          loads[i].status = "Delivered" => loads'[i] = loads[i]]_vars

\* C10: no two loads in the store have the same id.
C10_LoadIdsUnique ==
    \A i, j \in DOMAIN loads : i # j => loads[i].id # loads[j].id

\* C11: every load in the store refers to a site that is in the store and
\* to a driver that is in the store, at its creation and after any later
\* deleteSite or deleteDriver.
C11_LoadsReferenceRoster ==
    \A i \in DOMAIN loads :
        /\ loads[i].siteId \in Ids(sites)
        /\ loads[i].driverId \in Ids(drivers)

C12_LoadStoredFirst == notifying <= Len(loads)

C12_NotifyStep ==
    /\ notifying' > notifying
         => /\ notifying' = notifying + 1
            /\ Len(loads') = Len(loads) + 1
            /\ loads'[Len(loads')].items = items
    /\ notifying' < notifying
         => UNCHANGED <<sites, drivers, loads, items, siteId, driverId,
                        grade, qty, page, tab, now>>

\* C12: a notification is started only by the step that has put its load
\* into the store, every pending notification has its load in the store,
\* and the step that settles one, resolved or rejected, at whatever point
\* among the later user actions, leaves the sites, drivers, loads, item
\* list and everything else a handler reads as they were; one that never
\* settles takes no step at all.
C12_NotificationHarmless == []C12_LoadStoredFirst /\ [][C12_NotifyStep]_vars

\* The clipboard notification of the first of two loads settles after the
\* second load was created and an item of a third was added; the other
\* notification is still pending.
C12_Witness ==
    /\ toast = "Copied assignment to clipboard"
    /\ notifying = 1
    /\ Len(loads) = 2
    /\ items # <<>>

C13_Step ==
    /\ (handleCreateLoad /\ siteId # NoId /\ driverId # NoId /\ items # <<>>)
         => items' = <<>>
    /\ \A i \in DOMAIN loads :
          /\ i \in DOMAIN loads'
          /\ loads'[i].items = loads[i].items

\* C13: a successful Create Load leaves the item list under assembly empty,
\* and no step, addItem, Create Load and marking delivered included, changes
\* the items or their order in a load that is already in the store.
C13_ItemsByValue == [][C13_Step]_vars

\* A two-item load, since delivered, next to a later load with other items
\* and a further item list under assembly.
C13_Witness ==
    /\ Len(loads) = 2
    /\ loads[1].status = "Delivered"
    /\ Len(loads[1].items) = 2
    /\ loads[1].items[1].qty # loads[1].items[2].qty
    /\ loads[2].items # loads[1].items
    /\ items # <<>>

\* C14: every tank of every site in the store has a capacity above zero,
\* since Add Tank with a zero or negative capacity adds nothing.
C14_TankCapacitiesPositive ==
    \A i \in DOMAIN sites :
        \A k \in DOMAIN sites[i].tanks : sites[i].tanks[k].capacity > 0
====
